---- MODULE Spec2Model ----
(***************************************************************************)
(* Model of the retrieval-to-grounding pipeline of the Scarper service:    *)
(*   app/services/scraper.py        WebScraperService (fetch + extraction) *)
(*   app/services/summarizer.py     SummarizerService (condensation)       *)
(*   app/services/llm_runtime.py    LocalLLM (chat, image decoding)        *)
(*   app/services/brave_search.py   BraveSearchService (search + retries)  *)
(*   app/pipelines/retrieval_augmented.py  RetrievalAugmentedPipeline.run  *)
(*   app/main.py                    query_endpoint (status of /query)      *)
(*                                                                         *)
(* A Python str is a sequence of one-character strings.  None and a raised *)
(* exception are the two sentinel sequences below, which no str equals     *)
(* (their single element is longer than one character).                    *)
(***************************************************************************)
EXTENDS Integers, Sequences, FiniteSets, TLC

None == <<"None">>

Raise == <<"Raise">>

\* Python truthiness of an Optional[str]: neither None nor "".
Truthy(s) == s # None /\ s # <<>>

\* a or b, on Optional[str].
OrElse(a, b) == IF Truthy(a) THEN a ELSE b

RECURSIVE LStrip(_)
LStrip(s) == IF s # <<>> /\ Head(s) = " " THEN LStrip(Tail(s)) ELSE s

RECURSIVE RStrip(_)
RStrip(s) ==
    IF s # <<>> /\ s[Len(s)] = " " THEN RStrip(SubSeq(s, 1, Len(s) - 1)) ELSE s

\* str.strip(): leading and trailing whitespace removed.
Strip(s) == RStrip(LStrip(s))

\* x.strip() if x else None
StripOrNone(s) == IF Truthy(s) THEN Strip(s) ELSE None

RECURSIVE SplitFrom(_, _, _)
\* The words of s after the words acc and the begun word cur.
SplitFrom(s, cur, acc) ==
    LET closed == IF cur = <<>> THEN acc ELSE Append(acc, cur)
    IN IF s = <<>> THEN closed
       ELSE IF Head(s) = " " THEN SplitFrom(Tail(s), <<>>, closed)
       ELSE SplitFrom(Tail(s), Append(cur, Head(s)), acc)

\* str.split(): the maximal runs of non-whitespace characters, in order.
Split(s) == SplitFrom(s, <<>>, <<>>)

RECURSIVE Join(_, _)
\* sep.join(words)
Join(sep, words) ==
    IF words = <<>> THEN <<>>
    ELSE IF Len(words) = 1 THEN words[1]
    ELSE words[1] \o sep \o Join(sep, Tail(words))

(***************************************************************************)
(* Bounds of the model.                                                    *)
(***************************************************************************)
\* Longest candidate list the search collaborator returns.
MaxCands == 3

\* Settings.max_concurrent_fetches: the environment-configurable ceiling
\* (SCARPER_MAX_CONCURRENT_FETCHES), modelled with a small value so that
\* candidate lists exceed it.
max_concurrent_fetches == 2

\* stop_after_attempt(3) of the search retry policy.
SearchAttempts == 3

\* Settings.summary_chunk_size: the configurable word limit of the
\* summarizer (SCARPER_SUMMARY_CHUNK_SIZE, 1200 by default), modelled with a
\* small value so that texts exceed it.
summary_chunk_size == 2

\* Longest text _prepare_text is applied to, in characters.
MaxTextLen == 7

\* Settings.brave_result_count
brave_result_count == 6

\* QueryRequest.top_k: Field(5, ge=1, le=12)
TopKMin == 1

TopKMax == 12

Requests == {"r1", "r2"}

Urls == {"u1", "u2"}

(***************************************************************************)
(* A fetched page.  The parsing libraries are external: a page is modelled *)
(* by what each of them answers on it.                                     *)
(*   traf      trafilatura.extract(html): None, a str, or Raise            *)
(*   meta      trafilatura.extract_metadata(html): Raise, or the           *)
(*             metadata's title (None: no metadata or no title)            *)
(*   rd_text   readability summary text before the final strip, or Raise   *)
(*   rd_title  short_title() or title() of readability (None: neither)     *)
(*   bs_text   the joined stripped_strings of BeautifulSoup, or Raise      *)
(*   bs_title  soup.title.string (None: no title element)                  *)
(***************************************************************************)
TrafOutputs == {None, Raise, <<>>, <<" ">>, <<" ", "a", " ">>}

MetaOutputs == {None, Raise, <<"M">>}

RdTexts == {Raise, <<>>, <<" ">>, <<"b", " ">>}

RdTitles == {None, <<" ", "R">>}

BsTexts == {Raise, <<>>, <<"c">>}

BsTitles == {None, <<"T", " ">>}

Pages ==
    [traf : TrafOutputs, meta : MetaOutputs, rd_text : RdTexts,
     rd_title : RdTitles, bs_text : BsTexts, bs_title : BsTitles]

FallbackTitles == {<<"F">>}

(***************************************************************************)
(* Results of _fetch: a ScrapedDocument, None, or a propagated exception.  *)
(* tiers is the set of extraction tiers that were called.                  *)
(***************************************************************************)
NoDoc(tiers) ==
    [tag |-> "none", url |-> "", title |-> None, text |-> None, tiers |-> tiers]

RaisedDoc(tiers) ==
    [tag |-> "raised", url |-> "", title |-> None, text |-> None, tiers |-> tiers]

ScrapedDocument(url, title, text, tiers) ==
    [tag |-> "doc", url |-> url, title |-> title, text |-> text, tiers |-> tiers]

\* _readability_extract: any exception gives (None, None).
ReadabilityExtract(html) ==
    IF html.rd_text = Raise
    THEN [text |-> None, title |-> None, raised |-> FALSE]
    ELSE LET clean_text == StripOrNone(html.rd_text)
             clean_title == StripOrNone(html.rd_title)
         IN [text |-> IF Truthy(clean_text) THEN clean_text ELSE None,
             title |-> clean_title, raised |-> FALSE]

\* _beautifulsoup_extract: no exception handler, an exception propagates.
BeautifulsoupExtract(html) ==
    IF html.bs_text = Raise
    THEN [text |-> None, title |-> None, raised |-> TRUE]
    ELSE LET cleaned == Strip(html.bs_text)
             title == IF Truthy(html.bs_title) THEN Strip(html.bs_title) ELSE None
         IN [text |-> IF cleaned # <<>> THEN cleaned ELSE None,
             title |-> title, raised |-> FALSE]

\* Whether _fallback_extract goes on to the raw-markup tier.
ReadabilityEmpty(html) == ~Truthy(ReadabilityExtract(html).text)

\* _fallback_extract: readability first, BeautifulSoup when it gave no text.
FallbackExtract(html) ==
    IF ReadabilityEmpty(html)
    THEN BeautifulsoupExtract(html) @@ [tiers |-> {2, 3}]
    ELSE ReadabilityExtract(html) @@ [tiers |-> {2}]

\* downloaded: the except clause turns an exception of extract() into None.
Downloaded(html) == IF html.traf = Raise THEN None ELSE html.traf

\* Mutant of PrimaryText: the primary tier's output is not trimmed.
PrimaryTextUnstripped(html) == Downloaded(html)

\* text_content after the primary tier.
PrimaryText(html) == StripOrNone(Downloaded(html))

\* Mutant of NeedsFallback: "if downloaded is None" in place of "if not text_content".
NeedsFallbackOnNone(html) == Downloaded(html) = None

\* Whether _fetch calls _fallback_extract (if not text_content).
NeedsFallback(html) == ~Truthy(PrimaryText(html))

\* title = meta_title or fallback_html_title or fallback_title
ResolveTitle(meta_title, fallback_html_title, fallback_title) ==
    OrElse(meta_title, OrElse(fallback_html_title, fallback_title))

\* The extraction part of _fetch, after the body was received.
Extract(html, url, fallback_title) ==
    LET fb == IF NeedsFallback(html)
              THEN FallbackExtract(html)
              ELSE [text |-> PrimaryText(html), title |-> None,
                    raised |-> FALSE, tiers |-> {}]
        tiers == {1} \cup fb.tiers
    IN  IF fb.raised THEN RaisedDoc(tiers)
        ELSE IF ~Truthy(fb.text) THEN NoDoc(tiers)
        ELSE IF Truthy(Downloaded(html)) /\ html.meta = Raise THEN RaisedDoc(tiers)
        ELSE LET meta_title == IF Truthy(Downloaded(html)) THEN html.meta ELSE None
             IN ScrapedDocument(url, ResolveTitle(meta_title, fb.title, fallback_title),
                                fb.text, tiers)

\* Mutant of OnFetchError: the request's exception is not caught.
OnFetchErrorRaises == RaisedDoc({})

\* What _fetch returns when the request failed: the except clause returns None.
OnFetchError == NoDoc({})

(***************************************************************************)
(* The pages, search results, images and model outputs the pipeline is run *)
(* on.                                                                     *)
(***************************************************************************)
\* A page the primary tier extracts, with a metadata title.
PageArticle ==
    [traf |-> <<" ", "a", " ">>, meta |-> <<"M">>, rd_text |-> <<"b", " ">>,
     rd_title |-> <<" ", "R">>, bs_text |-> <<"c">>, bs_title |-> <<"T", " ">>]

\* A page with no text at all.
PageEmpty ==
    [traf |-> <<" ">>, meta |-> None, rd_text |-> <<>>,
     rd_title |-> None, bs_text |-> <<>>, bs_title |-> None]

\* A page on which extract_metadata raises after the primary tier succeeded.
PageMetaRaises ==
    [traf |-> <<" ", "a", " ">>, meta |-> Raise, rd_text |-> <<>>,
     rd_title |-> None, bs_text |-> <<>>, bs_title |-> None]

NetPages == {PageArticle, PageEmpty, PageMetaRaises}

\* The html of a task that has received no body.
NoPage ==
    [traf |-> None, meta |-> None, rd_text |-> <<>>,
     rd_title |-> None, bs_text |-> <<>>, bs_title |-> None]

\* SearchDocument(url, title, snippet, summary); the snippet is never read.
SearchDocument(url, title) == [url |-> url, title |-> title, summary |-> None]

Candidates == {SearchDocument(u, t) : u \in Urls, t \in FallbackTitles}

CandLists == UNION {[1..n -> Candidates] : n \in 0..MaxCands}

\* image_base64, in units: the "data:" header, the comma, a valid base64
\* quantum ("QUJD"), a character outside the base64 alphabet ("@").
Images == {None, <<"data:", ",", "QUJD">>, <<"data:", ",", "@">>}

\* choices[0]["message"]["content"] of a completion, or Raise: no choices
\* (RuntimeError) or an exception of the runtime.
LlmOutputs == {Raise, <<" ">>, <<" ", "s">>}

RECURSIVE IndexOf(_, _)
\* 1-based position of the first x in s, 0 when absent.
IndexOf(s, x) ==
    IF s = <<>> THEN 0
    ELSE IF Head(s) = x THEN 1
    ELSE LET k == IndexOf(Tail(s), x) IN IF k = 0 THEN 0 ELSE k + 1

\* _strip_data_url_prefix
StripDataUrlPrefix(image_base64) ==
    IF IndexOf(image_base64, ",") > 0 /\ Head(image_base64) = "data:"
    THEN SubSeq(image_base64, IndexOf(image_base64, ",") + 1, Len(image_base64))
    ELSE image_base64

\* Mutant of Base64Valid: the payload is not validated.
Base64Unchecked(s) == TRUE

\* base64.b64decode(validate=True) succeeds: only whole base64 quanta.
Base64Valid(s) == \A k \in 1..Len(s) : s[k] = "QUJD"

\* Whether format_image_content raises ValueError on the cleaned payload.
ImageDecodeFails(image_base64) == ~Base64Valid(StripDataUrlPrefix(image_base64))

(***************************************************************************)
(* State.                                                                  *)
(***************************************************************************)
VARIABLES
    pc,               \* per request: the phase run() is in
    image,            \* per request: image_base64
    attempt,          \* per request: failed attempts of the search in progress
    search_results,   \* per request: the list search() returned
    tasks,            \* per request: the _bounded_fetch tasks of gather
    permits,          \* the value of WebScraperService._semaphore
    scraped_docs,     \* per request: what fetch_documents returned
    sidx,             \* per request: position of _summaries_by_url's loop
    summary_map,      \* per request: url -> summary (None: no entry)
    contexts,         \* per request: the context blocks of the prompt
    filtered_sources, \* per request
    digests,          \* per request: what summarize returned, per document
    outcome,          \* per request: the response or the exception of run
    status,           \* per request: the HTTP status /query answered with
    calls,            \* per request: generation calls started, by purpose,
                      \* and the most condensation calls in flight at once
    ex,               \* the extractor applied to one page
    pt,               \* _prepare_text applied to one text
    ep,               \* query_endpoint applied to one QueryRequest
    finished          \* history: per request, the order its tasks ended in

vars ==
    <<pc, image, attempt, search_results, tasks, permits, scraped_docs, sidx,
      digests, summary_map, contexts, filtered_sources, outcome, status,
      calls, ex, pt, ep, finished>>

pipeVars ==
    <<pc, image, attempt, search_results, tasks, permits, scraped_docs, sidx,
      digests, summary_map, contexts, filtered_sources, outcome, status,
      calls, finished>>

\* The functions checked on their own, which the pipeline's steps leave alone.
aux == <<ex, pt, ep>>

\* raw: what the final chat call's completion held, once it has ended.
NoOutcome ==
    [kind |-> "none", from |-> "none", answer |-> None, sources |-> <<>>,
     raw |-> None]

Failure(kind, from) ==
    [kind |-> kind, from |-> from, answer |-> None, sources |-> <<>>,
     raw |-> None]

QueryResponse(answer, sources) ==
    [kind |-> "ok", from |-> "generating", answer |-> answer,
     sources |-> sources, raw |-> None]

\* The exception behind each kind of failure: its class, and its message
\* word by word.
ExceptionOf(kind) ==
    CASE kind = "EmptyResults" ->
            [type |-> "ValueError",
             message |-> <<"No", "search", "results", "returned", "for",
                           "the", "supplied", "query">>]
      [] kind = "InvalidImage" ->
            [type |-> "ValueError",
             message |-> <<"Invalid", "base64", "image", "payload">>]
      [] kind = "BraveSearchError" ->
            [type |-> "BraveSearchError",
             message |-> <<"Unable", "to", "retrieve", "search", "results",
                           "from", "Brave">>]
      [] kind = "HTTPError" -> [type |-> "httpx.HTTPError", message |-> <<>>]
      [] kind = "RuntimeError" ->
            [type |-> "RuntimeError",
             message |-> <<"No", "choices", "returned", "by", "local", "LLM">>]
      [] OTHER -> [type |-> "Exception", message |-> <<>>]

\* needle in message, on words.
Contains(message, needle) ==
    \E k \in 0..Len(message) :
        /\ k + Len(needle) <= Len(message)
        /\ SubSeq(message, k + 1, k + Len(needle)) = needle

\* Mutant of MentionsInvalidBase64: the message is not looked at.
MessageIgnored(message) == FALSE

\* "Invalid base64" in message
MentionsInvalidBase64(message) == Contains(message, <<"Invalid", "base64">>)

NoStatus == 0

\* The status a request ends with when an exception leaves query_endpoint
\* uncaught: the framework's internal server error.
Unhandled == 500

\* The except clauses of query_endpoint, in their order.
EndpointStatus(exc) ==
    IF exc.type = "BraveSearchError" THEN 502
    ELSE IF exc.type = "ValueError"
         THEN IF MentionsInvalidBase64(exc.message) THEN 400 ELSE 404
    ELSE Unhandled

\* The status of /query for what run gave: the response, or the exception.
StatusOf(result) ==
    IF result.kind = "ok" THEN 200 ELSE EndpointStatus(ExceptionOf(result.kind))

NewTask ==
    [st |-> "waiting", net |-> "none", html |-> NoPage, res |-> NoDoc({}),
     gets |-> 0, holds |-> FALSE]

ExInit ==
    [phase |-> "input", html |-> NoPage, url |-> "", fallback_title |-> None,
     out |-> NoDoc({})]

\* The order of task ends is recorded only where on is set.
NotObserved == [on |-> FALSE, order |-> [r \in Requests |-> <<>>]]

Observed == [on |-> TRUE, order |-> [r \in Requests |-> <<>>]]

\* Task i of request r has ended.
Observe(f, r, i) == IF f.on THEN [f EXCEPT !.order[r] = Append(@, i)] ELSE f

RunInit ==
    /\ pc = [r \in Requests |-> "idle"]
    /\ image = [r \in Requests |-> None]
    /\ attempt = [r \in Requests |-> 0]
    /\ search_results = [r \in Requests |-> <<>>]
    /\ tasks = [r \in Requests |-> <<>>]
    /\ permits = max_concurrent_fetches
    /\ scraped_docs = [r \in Requests |-> <<>>]
    /\ sidx = [r \in Requests |-> 0]
    /\ digests = [r \in Requests |-> <<>>]
    /\ summary_map = [r \in Requests |-> [u \in Urls |-> None]]
    /\ contexts = [r \in Requests |-> <<>>]
    /\ filtered_sources = [r \in Requests |-> <<>>]
    /\ outcome = [r \in Requests |-> NoOutcome]
    /\ status = [r \in Requests |-> NoStatus]
    /\ calls = [r \in Requests |-> [condense |-> 0, final |-> 0, peak |-> 0]]

PipeInit == RunInit /\ finished = NotObserved

PtInit == [phase |-> "off", text |-> <<>>, out |-> <<>>]

\* QueryRequest(query, top_k, image_base64)
QueryRequest(query, top_k, image_base64) ==
    [query |-> query, top_k |-> top_k, image_base64 |-> image_base64]

EpInit ==
    [phase |-> "off", request |-> QueryRequest("", TopKMin, None),
     runs |-> <<>>, status |-> NoStatus]

Init == PipeInit /\ ex = ExInit /\ pt = PtInit /\ ep = EpInit

(***************************************************************************)
(* RetrievalAugmentedPipeline.run, up to the fan-out.                      *)
(***************************************************************************)
\* A request enters run(): the search is awaited.
StartRequest(r, img) ==
    /\ pc[r] = "idle"
    /\ pc' = [pc EXCEPT ![r] = "searching"]
    /\ image' = [image EXCEPT ![r] = img]
    /\ UNCHANGED <<attempt, search_results, tasks, permits, scraped_docs,
                   sidx, digests, summary_map, contexts, filtered_sources,
                   outcome, status, calls, aux,
                   finished>>

\* One attempt of _do_request raises httpx.HTTPError.  With reraise=True the
\* last attempt's exception leaves search() as it is.
SearchAttemptFails(r) ==
    /\ pc[r] = "searching"
    /\ attempt[r] < SearchAttempts
    /\ attempt' = [attempt EXCEPT ![r] = @ + 1]
    /\ IF attempt[r] + 1 = SearchAttempts
       THEN /\ pc' = [pc EXCEPT ![r] = "failed"]
            /\ outcome' = [outcome EXCEPT ![r] = Failure("HTTPError", "searching")]
            /\ status' = [status EXCEPT ![r] = StatusOf(outcome'[r])]
       ELSE UNCHANGED <<pc, outcome, status>>
    /\ UNCHANGED <<image, search_results, tasks, permits, scraped_docs, sidx,
                   digests, summary_map, contexts, filtered_sources, calls,
                   aux,
                   finished>>

\* Mutant of EmptyResults: the empty list is not checked.
EmptyResultsUnchecked(results) == FALSE

\* if not search_results: raise ValueError("No search results ...")
EmptyResults(results) == results = <<>>

\* search() returns (its retry state ends with it); run raises on an empty
\* list, else fetch_documents creates one _bounded_fetch task per candidate
\* and awaits gather.
SearchReturns(r, results) ==
    /\ pc[r] = "searching"
    /\ search_results' = [search_results EXCEPT ![r] = results]
    /\ attempt' = [attempt EXCEPT ![r] = 0]
    /\ IF EmptyResults(results)
       THEN /\ pc' = [pc EXCEPT ![r] = "failed"]
            /\ outcome' = [outcome EXCEPT ![r] = Failure("EmptyResults", "searching")]
            /\ status' = [status EXCEPT ![r] = StatusOf(outcome'[r])]
            /\ UNCHANGED tasks
       ELSE /\ pc' = [pc EXCEPT ![r] = "fetching"]
            /\ tasks' = [tasks EXCEPT ![r] = [i \in 1..Len(results) |-> NewTask]]
            /\ UNCHANGED <<outcome, status>>
    /\ UNCHANGED <<image, permits, scraped_docs, sidx, digests, summary_map,
                   contexts, filtered_sources, calls, aux,
                   finished>>

(***************************************************************************)
(* WebScraperService: the _bounded_fetch tasks.                            *)
(***************************************************************************)
\* Mutant of CanAcquire: the semaphore never blocks.
CanAcquireAlways == TRUE

\* Semaphore.acquire returns only while the value is positive.
CanAcquire == permits > 0

\* Mutant of Release: the permit is not given back.
ReleaseLost(value) == value

\* Semaphore.release
Release(value) == value + 1

\* Mutant of ReleasedOnExit: the release follows the block and is skipped
\* by an exception.
ReleasedOnReturnOnly(res) == res.tag # "raised"

\* The async with block releases the semaphore on every exit, by return
\* (a document or None) or by exception.
ReleasedOnExit(res) == TRUE

\* Mutant of ReleasePoint: the block ends when the response has arrived.
ReleaseAtResponse == "response"

\* Where _bounded_fetch leaves its async with block: at the return of
\* _fetch, which runs the extraction.
ReleasePoint == "return"

\* async with self._semaphore: entry.
Acquire(r, i) ==
    /\ i \in DOMAIN tasks[r]
    /\ tasks[r][i].st = "waiting"
    /\ CanAcquire
    /\ permits' = permits - 1
    /\ tasks' = [tasks EXCEPT ![r][i] = [@ EXCEPT !.st = "fetching", !.holds = TRUE]]
    /\ UNCHANGED <<pc, image, attempt, search_results, scraped_docs, sidx,
                   digests, summary_map, contexts, filtered_sources, outcome,
                   status, calls, aux,
                   finished>>

\* client.get or raise_for_status raises (transport error, status, timeout):
\* _fetch returns None and the semaphore is released.
FetchFails(r, i) ==
    /\ i \in DOMAIN tasks[r]
    /\ tasks[r][i].st = "fetching"
    /\ tasks' = [tasks EXCEPT ![r][i] =
                    [@ EXCEPT !.st = "done", !.net = "error", !.holds = FALSE,
                              !.res = OnFetchError, !.gets = @ + 1]]
    /\ permits' = Release(permits)
    /\ UNCHANGED <<pc, image, attempt, search_results, scraped_docs, sidx,
                   digests, summary_map, contexts, filtered_sources, outcome,
                   status, calls, aux>>
    /\ finished' = Observe(finished, r, i)

\* The body arrives; the client is closed before extraction starts.
FetchResponds(r, i, html) ==
    /\ i \in DOMAIN tasks[r]
    /\ tasks[r][i].st = "fetching"
    /\ tasks' = [tasks EXCEPT ![r][i] =
                    [@ EXCEPT !.st = "extracting", !.net = "ok",
                              !.html = html, !.gets = @ + 1,
                              !.holds = ReleasePoint # "response"]]
    /\ permits' = IF ReleasePoint = "response" THEN Release(permits) ELSE permits
    /\ UNCHANGED <<pc, image, attempt, search_results, scraped_docs,
                   sidx, digests, summary_map, contexts, filtered_sources,
                   outcome, status, calls, aux,
                   finished>>

\* The extraction chain runs; leaving the async with block, by return or by
\* exception, releases the semaphore.
ExtractDone(r, i) ==
    /\ i \in DOMAIN tasks[r]
    /\ tasks[r][i].st = "extracting"
    /\ tasks' = [tasks EXCEPT ![r][i] =
                    [@ EXCEPT !.st = "done", !.holds = FALSE,
                              !.res = Extract(tasks[r][i].html,
                                              search_results[r][i].url,
                                              search_results[r][i].title)]]
    /\ permits' = IF ReleasePoint = "return" /\ ReleasedOnExit(tasks'[r][i].res)
                   THEN Release(permits) ELSE permits
    /\ UNCHANGED <<pc, image, attempt, search_results, scraped_docs, sidx,
                   digests, summary_map, contexts, filtered_sources, outcome,
                   status, calls, aux>>
    /\ finished' = Observe(finished, r, i)

\* Mutant of GatheredDocs: the results are collected last task first.
GatheredReversed(ts) ==
    LET res == [i \in 1..Len(ts) |-> ts[Len(ts) + 1 - i].res]
    IN SelectSeq(res, LAMBDA d : d.tag = "doc")

\* [doc for doc in await asyncio.gather(*tasks) if doc is not None]
GatheredDocs(ts) ==
    LET res == [i \in 1..Len(ts) |-> ts[i].res]
    IN SelectSeq(res, LAMBDA d : d.tag = "doc")

\* Mutant of AllReturned: gather is over when one task has returned.
SomeReturned(ts) == \E i \in DOMAIN ts : ts[i].st = "done"

\* await asyncio.gather(*tasks): every awaitable has a result.
AllReturned(ts) == \A i \in DOMAIN ts : ts[i].st = "done"

\* gather returns when every task has returned, none with an exception.
GatherReturns(r) ==
    /\ pc[r] = "fetching"
    /\ AllReturned(tasks[r])
    /\ \A i \in DOMAIN tasks[r] : tasks[r][i].res.tag # "raised"
    /\ scraped_docs' = [scraped_docs EXCEPT ![r] = GatheredDocs(tasks[r])]
    /\ sidx' = [sidx EXCEPT ![r] = 1]
    /\ pc' = [pc EXCEPT ![r] = "condensing"]
    /\ UNCHANGED <<image, attempt, search_results, tasks, permits, digests,
                   summary_map, contexts, filtered_sources, outcome, status,
                   calls, aux,
                   finished>>

\* gather (return_exceptions=False) raises the first exception of a task to
\* its awaiter; the other tasks are not cancelled and keep running.
GatherRaises(r) ==
    /\ pc[r] = "fetching"
    /\ \E i \in DOMAIN tasks[r] : tasks[r][i].st = "done" /\ tasks[r][i].res.tag = "raised"
    /\ pc' = [pc EXCEPT ![r] = "failed"]
    /\ outcome' = [outcome EXCEPT ![r] = Failure("LibraryError", "fetching")]
    /\ status' = [status EXCEPT ![r] = StatusOf(outcome'[r])]
    /\ UNCHANGED <<image, attempt, search_results, tasks, permits,
                   scraped_docs, sidx, digests, summary_map, contexts,
                   filtered_sources, calls, aux,
                   finished>>

(***************************************************************************)
(* Condensation: SummarizerService.summarize under _summaries_by_url.      *)
(***************************************************************************)
\* Mutant of ChatResult: no choices gives the empty answer.
ChatResultEmpty(out) == IF out = Raise THEN <<>> ELSE Strip(out)

\* LocalLLM.chat: RuntimeError when there are no choices, else the content
\* stripped.
ChatResult(out) == IF out = Raise THEN Raise ELSE Strip(out)

\* Mutant of SummaryOf: the exception of chat is not caught.
SummaryOfUncaught(out) == ChatResult(out)

\* summarize: an exception of chat gives None, else summary.strip().
SummaryOf(out) == IF ChatResult(out) = Raise THEN None ELSE Strip(ChatResult(out))

\* Mutant of PrepareText: the text is sent whole.
PrepareTextWhole(text) == text

\* _prepare_text
PrepareText(text) ==
    LET words == Split(text)
        limit == summary_chunk_size
    IN IF Len(words) <= limit THEN text
       ELSE Join(<<" ">>, SubSeq(words, 1, limit))

\* Mutant of Sends: summarize returns None before the chat call.
SendsNothing(text) == FALSE

\* summarize goes as far as the chat call: neither the text nor the
\* prepared text is empty.
Sends(text) == Truthy(text) /\ Truthy(PrepareText(text))

\* The chat call of a condensation raised, or its content is empty once
\* trimmed.
LlmFailed(out) == out = Raise \/ Strip(out) = <<>>

\* What the loop of _summaries_by_url got for one document: the value
\* summarize returned, and whether the chat call behind it failed.
Digest(failed, summary) == [failed |-> failed, summary |-> summary]

\* The loop takes the next document; summarize returns None at once for a
\* document without text, else awaits the chat call.
SummarizeCall(r) ==
    /\ pc[r] = "condensing"
    /\ sidx[r] <= Len(scraped_docs[r])
    /\ IF Sends(scraped_docs[r][sidx[r]].text)
       THEN /\ pc' = [pc EXCEPT ![r] = "summarizing"]
            /\ calls' = [calls EXCEPT
                            ![r].condense = @ + 1,
                            ![r].peak = IF calls[r].condense + 1 - Len(digests[r]) > @
                                        THEN calls[r].condense + 1 - Len(digests[r])
                                        ELSE @]
            /\ UNCHANGED <<sidx, digests>>
       ELSE /\ sidx' = [sidx EXCEPT ![r] = @ + 1]
            /\ digests' = [digests EXCEPT ![r] = Append(@, Digest(FALSE, None))]
            /\ UNCHANGED <<pc, calls>>
    /\ UNCHANGED <<image, attempt, search_results, tasks, permits,
                   scraped_docs, summary_map, contexts, filtered_sources,
                   outcome, status, aux,
                   finished>>

\* Mutant of StoreSummary: the first summary of a url is kept.
StoreFirstSummary(map, url, summary) ==
    IF Truthy(summary) /\ ~Truthy(map[url]) THEN [map EXCEPT ![url] = summary]
    ELSE map

\* if summary: summary_map[doc.url] = summary
StoreSummary(map, url, summary) ==
    IF Truthy(summary) THEN [map EXCEPT ![url] = summary] ELSE map

\* The chat call ends and the loop stores what summarize returned.
SummarizeReturns(r, out) ==
    /\ pc[r] = "summarizing"
    /\ LET doc == scraped_docs[r][sidx[r]]
       IN summary_map' =
             [summary_map EXCEPT ![r] = StoreSummary(@, doc.url, SummaryOf(out))]
    /\ sidx' = [sidx EXCEPT ![r] = @ + 1]
    /\ digests' = [digests EXCEPT ![r] = Append(@, Digest(LlmFailed(out), SummaryOf(out)))]
    /\ pc' = [pc EXCEPT ![r] = "condensing"]
    /\ UNCHANGED <<image, attempt, search_results, tasks, permits,
                   scraped_docs, contexts, filtered_sources, outcome, status,
                   calls, aux,
                   finished>>

(***************************************************************************)
(* Aggregation and the final generation call.                              *)
(***************************************************************************)
\* Mutant of DigestPositions: the if summary: test is dropped.
AllPositions(results, map) == [i \in 1..Len(results) |-> i]

\* Positions of the candidates for which summary_map.get(doc.url) is truthy.
DigestPositions(results, map) ==
    SelectSeq([i \in 1..Len(results) |-> i], LAMBDA i : Truthy(map[results[i].url]))

\* Mutant of CitationIndex: blocks numbered in the order they are built.
CitationIndexByBlock(pos, k) == k

\* The index a context block carries: enumerate(search_results, start=1).
\* pos is the candidate's position, k the number of the block.
CitationIndex(pos, k) == pos

\* contexts: "[idx] title\nURL: url\nSummary:\nsummary" per candidate with a digest.
BuildContexts(results, map) ==
    LET ps == DigestPositions(results, map)
    IN [k \in 1..Len(ps) |->
          [idx |-> CitationIndex(ps[k], k), title |-> results[ps[k]].title,
           url |-> results[ps[k]].url, summary |-> map[results[ps[k]].url]]]

\* search_results after the loop: doc.summary = summary where there is one.
MarkSummaries(results, map) ==
    [i \in 1..Len(results) |->
        IF Truthy(map[results[i].url])
        THEN [results[i] EXCEPT !.summary = map[results[i].url]]
        ELSE results[i]]

\* filtered_sources after the loop.
FilterSources(results, map) ==
    LET ps == DigestPositions(results, map)
    IN [k \in 1..Len(ps) |-> MarkSummaries(results, map)[ps[k]]]

\* Mutant of ReturnedSources: the "or search_results" is dropped.
ReturnedFilteredOnly(filtered, results) == filtered

\* filtered_sources or search_results
ReturnedSources(filtered, results) == IF filtered # <<>> THEN filtered ELSE results

\* if image_base64: ... format_image_content raises ValueError
ImageRejected(image_base64) == Truthy(image_base64) /\ ImageDecodeFails(image_base64)

\* Lines 46-98 of run, which hold no await: the candidates are walked in
\* order, the prompt is built, the image is decoded, and the final chat
\* call is started.
Aggregate(r) ==
    /\ pc[r] = "condensing"
    /\ sidx[r] > Len(scraped_docs[r])
    /\ contexts' = [contexts EXCEPT ![r] = BuildContexts(search_results[r], summary_map[r])]
    /\ filtered_sources' =
          [filtered_sources EXCEPT ![r] = FilterSources(search_results[r], summary_map[r])]
    /\ search_results' =
          [search_results EXCEPT ![r] = MarkSummaries(search_results[r], summary_map[r])]
    /\ IF ImageRejected(image[r])
       THEN /\ pc' = [pc EXCEPT ![r] = "failed"]
            /\ outcome' = [outcome EXCEPT ![r] = Failure("InvalidImage", "aggregating")]
            /\ status' = [status EXCEPT ![r] = StatusOf(outcome'[r])]
            /\ UNCHANGED calls
       ELSE /\ pc' = [pc EXCEPT ![r] = "generating"]
            /\ calls' = [calls EXCEPT ![r].final = @ + 1]
            /\ UNCHANGED <<outcome, status>>
    /\ UNCHANGED <<image, attempt, tasks, permits, scraped_docs, sidx,
                   digests, summary_map, aux,
                   finished>>

\* The final chat call ends: RuntimeError leaves run, else the response.
GenerateReturns(r, out) ==
    /\ pc[r] = "generating"
    /\ IF ChatResult(out) = Raise
       THEN /\ pc' = [pc EXCEPT ![r] = "failed"]
            /\ outcome' = [outcome EXCEPT ![r] =
                  [Failure("RuntimeError", "generating") EXCEPT !.raw = out]]
            /\ status' = [status EXCEPT ![r] = StatusOf(outcome'[r])]
       ELSE /\ pc' = [pc EXCEPT ![r] = "done"]
            /\ outcome' = [outcome EXCEPT ![r] =
                  [QueryResponse(ChatResult(out),
                                 ReturnedSources(filtered_sources[r],
                                                 search_results[r]))
                      EXCEPT !.raw = out]]
            /\ status' = [status EXCEPT ![r] = StatusOf(outcome'[r])]
    /\ UNCHANGED <<image, attempt, search_results, tasks, permits,
                   scraped_docs, sidx, digests, summary_map, contexts,
                   filtered_sources, calls, aux,
                   finished>>

\* One step of request r, its inputs drawn from the given sets.
Step(r, images, lists, pages, outs) ==
    \/ \E img \in images : StartRequest(r, img)
    \/ SearchAttemptFails(r)
    \/ \E results \in lists : SearchReturns(r, results)
    \/ \E i \in 1..MaxCands : Acquire(r, i)
    \/ \E i \in 1..MaxCands : FetchFails(r, i)
    \/ \E i \in 1..MaxCands, html \in pages : FetchResponds(r, i, html)
    \/ \E i \in 1..MaxCands : ExtractDone(r, i)
    \/ GatherReturns(r)
    \/ GatherRaises(r)
    \/ SummarizeCall(r)
    \/ \E out \in outs : SummarizeReturns(r, out)
    \/ Aggregate(r)
    \/ \E out \in outs : GenerateReturns(r, out)

\* One request run end to end.
Next == Step("r1", Images, CandLists, NetPages, LlmOutputs)

Spec == Init /\ [][Next]_vars

(***************************************************************************)
(* Two requests running concurrently on the one scraper and the one model, *)
(* each on a short candidate list of one url.                              *)
(***************************************************************************)
SharedCands == 2

SharedLists ==
    UNION {[1..n -> {SearchDocument("u1", <<"F">>)}] : n \in 0..SharedCands}

SharedPages == {PageArticle, PageMetaRaises}

SharedOutputs == {<<" ", "s">>}

NextShared ==
    \E r \in Requests : Step(r, {None}, SharedLists, SharedPages, SharedOutputs)

SpecShared == Init /\ [][NextShared]_vars

(***************************************************************************)
(* One request with progress, on candidate lists longer than the ceiling:  *)
(* the event loop runs every coroutine that can run, every network call    *)
(* ends (by a response, an error or the timeout) and every chat call       *)
(* returns or fails.                                                       *)
(***************************************************************************)
FairLists ==
    UNION {[1..n -> {SearchDocument("u1", <<"F">>)}] : n \in 0..MaxCands}

NextFair == Step("r1", {None}, FairLists, SharedPages, SharedOutputs)

SpecFair == Init /\ [][NextFair]_vars /\ WF_vars(NextFair)

(***************************************************************************)
(* One request whose pages all have text, condensed with two different     *)
(* summaries or without result.                                            *)
(***************************************************************************)
DigestOutputs == {Raise, <<"s">>, <<"t", " ">>}

NextDigest == Step("r1", {None}, CandLists, SharedPages, DigestOutputs)

SpecDigest == Init /\ [][NextDigest]_vars

(***************************************************************************)
(* One request without image, the order in which its tasks end recorded.   *)
(***************************************************************************)
InitOrder ==
    /\ RunInit
    /\ finished = Observed
    /\ ex = ExInit
    /\ pt = PtInit
    /\ ep = EpInit

NextOrder == Step("r1", {None}, CandLists, NetPages, SharedOutputs)

SpecOrder == InitOrder /\ [][NextOrder]_vars

(***************************************************************************)
(* The extractor on its own: _fetch's extraction applied to every page.    *)
(***************************************************************************)
InitExtract ==
    /\ PipeInit
    /\ ex \in [phase : {"input"}, html : Pages, url : {""},
                fallback_title : {None}, out : {NoDoc({})}]
    /\ pt = PtInit
    /\ ep = EpInit

ExtractPage(url, fallback_title) ==
    /\ ex.phase = "input"
    /\ ex' = [ex EXCEPT !.phase = "extracted", !.url = url,
                        !.fallback_title = fallback_title,
                        !.out = Extract(ex.html, url, fallback_title)]
    /\ UNCHANGED <<pipeVars, pt, ep>>

NextExtract == \E u \in Urls, t \in FallbackTitles : ExtractPage(u, t)

SpecExtract == InitExtract /\ [][NextExtract]_vars

(***************************************************************************)
(* The summarizer's _prepare_text on its own, applied to every text.       *)
(***************************************************************************)
Chars == {" ", "a", "b"}

Texts == UNION {[1..n -> Chars] : n \in 0..MaxTextLen}

InitPrepare ==
    /\ PipeInit
    /\ ex = ExInit
    /\ pt \in [phase : {"input"}, text : Texts, out : {<<>>}]
    /\ ep = EpInit

PrepareStep ==
    /\ pt.phase = "input"
    /\ pt' = [pt EXCEPT !.phase = "prepared", !.out = PrepareText(pt.text)]
    /\ UNCHANGED <<pipeVars, ex, ep>>

NextPrepare == PrepareStep

SpecPrepare == InitPrepare /\ [][NextPrepare]_vars

(***************************************************************************)
(* query_endpoint on its own: one accepted QueryRequest, and each way run  *)
(* can end.                                                                *)
(***************************************************************************)
Queries == {"q1", "q2"}

QueryRequests ==
    {QueryRequest(q, k, img) : q \in Queries, k \in TopKMin..TopKMax, img \in Images}

RunResults ==
    {"ok", "EmptyResults", "InvalidImage", "HTTPError", "LibraryError",
     "RuntimeError"}

\* Mutant of MinTopK: the request's top_k is passed on as it is.
RequestedTopK(a, b) == a

\* min(request.top_k, settings.brave_result_count)
MinTopK(a, b) == IF a <= b THEN a ELSE b

InitEndpoint ==
    /\ PipeInit
    /\ ex = ExInit
    /\ pt = PtInit
    /\ ep \in [phase : {"received"}, request : QueryRequests, runs : {<<>>},
                status : {NoStatus}]

\* query_endpoint up to its await: pipeline.run is called.
QueryEndpoint ==
    /\ ep.phase = "received"
    /\ ep' = [ep EXCEPT
                !.phase = "running",
                !.runs = Append(@, QueryRequest(
                                      ep.request.query,
                                      MinTopK(ep.request.top_k, brave_result_count),
                                      ep.request.image_base64))]
    /\ UNCHANGED <<pipeVars, ex, pt>>

\* run returns or raises: the response, or the status of the except clause.
RunEnds(kind) ==
    /\ ep.phase = "running"
    /\ ep' = [ep EXCEPT !.phase = "answered",
                        !.status = StatusOf([kind |-> kind])]
    /\ UNCHANGED <<pipeVars, ex, pt>>

NextEndpoint ==
    \/ QueryEndpoint
    \/ \E kind \in RunResults : RunEnds(kind)

SpecEndpoint == InitEndpoint /\ [][NextEndpoint]_vars

(***************************************************************************)
(* Properties.                                                             *)
(***************************************************************************)
Terminal(r) == pc[r] \in {"done", "failed"}

\* The (request, position) pairs of the existing _bounded_fetch tasks.
AllTasks == UNION {{<<r, i>> : i \in DOMAIN tasks[r]} : r \in Requests}

\* The tasks inside _fetch: past the semaphore and not yet returned.
InFetch == {t \in AllTasks : tasks[t[1]][t[2]].st \in {"fetching", "extracting"}}

Waiting == {t \in AllTasks : tasks[t[1]][t[2]].st = "waiting"}

\* The candidate list as search() returned it, before run sets any summary.
Original(r) ==
    [i \in 1..Len(search_results[r]) |->
        SearchDocument(search_results[r][i].url, search_results[r][i].title)]

\* Every candidate's _fetch returned None: fetch_documents returned [].
AllDropped(r) ==
    /\ tasks[r] # <<>>
    /\ \A i \in DOMAIN tasks[r] : tasks[r][i].st = "done" /\ tasks[r][i].res.tag = "none"

\* The payload holds a character outside the base64 alphabet.
Undecodable(img) == img # None /\ \E k \in DOMAIN img : img[k] = "@"

\* C1: over all fetch_documents calls on the one WebScraperService, of one
\* request or of concurrent ones, the number of _fetch executions in
\* progress never exceeds max_concurrent_fetches; the other candidates wait.
C1_FetchCeiling == Cardinality(InFetch) <= max_concurrent_fetches

\* C1 witness: the ceiling is reached by fetches of both requests while
\* another candidate waits for a permit.
C1_Witness ==
    /\ Cardinality(InFetch) = max_concurrent_fetches
    /\ \E t \in InFetch : t[1] = "r1"
    /\ \E t \in InFetch : t[1] = "r2"
    /\ Waiting # {}

\* C2: every context block [i] of the prompt sits at index i = the 1-based
\* position of its candidate in the list the search returned (same url and
\* title, the digest of that url), the blocks are in candidate order, and
\* exactly the candidates with a digest have a block.
C2_CitationIndex ==
    \A r \in Requests :
        pc[r] \in {"generating", "done"} =>
            /\ \A k \in DOMAIN contexts[r] :
                  LET b == contexts[r][k]
                  IN /\ b.idx \in DOMAIN search_results[r]
                     /\ search_results[r][b.idx].url = b.url
                     /\ search_results[r][b.idx].title = b.title
                     /\ b.summary = summary_map[r][b.url]
                     /\ Truthy(b.summary)
            /\ \A k \in DOMAIN contexts[r] :
                  k > 1 => contexts[r][k - 1].idx < contexts[r][k].idx
            /\ {contexts[r][k].idx : k \in DOMAIN contexts[r]}
                 = {i \in DOMAIN search_results[r] :
                        Truthy(summary_map[r][search_results[r][i].url])}

\* C2 witness: the prompt of a three-candidate request holds the blocks [2]
\* and [3] only: the first candidate used up index 1 without a block.
C2_Witness ==
    /\ pc["r1"] = "generating"
    /\ Len(search_results["r1"]) = 3
    /\ Len(contexts["r1"]) = 2
    /\ contexts["r1"][1].idx = 2
    /\ contexts["r1"][2].idx = 3

\* The candidates with a digest, each carrying it, in candidate order.
DigestedSources(r) ==
    SelectSeq([i \in 1..Len(search_results[r]) |->
                  [url |-> search_results[r][i].url,
                   title |-> search_results[r][i].title,
                   summary |-> summary_map[r][search_results[r][i].url]]],
              LAMBDA d : Truthy(d.summary))

\* C3: a run that returns gives as sources exactly the candidates with a
\* non-empty digest, in candidate order, each with its summary, when there
\* is at least one such candidate, and the whole original list otherwise.
C3_Sources ==
    \A r \in Requests :
        pc[r] = "done" =>
            IF \E i \in DOMAIN search_results[r] :
                  Truthy(summary_map[r][search_results[r][i].url])
            THEN /\ outcome[r].sources = DigestedSources(r)
                 /\ outcome[r].sources # <<>>
            ELSE outcome[r].sources = Original(r)

\* C3 witness: of three candidates only the second has a digest, and the
\* returned sources are that candidate alone, with its summary.
C3_Witness ==
    /\ pc["r1"] = "done"
    /\ Len(search_results["r1"]) = 3
    /\ Len(outcome["r1"].sources) = 1
    /\ outcome["r1"].sources[1].url = search_results["r1"][2].url
    /\ search_results["r1"][1].url # search_results["r1"][2].url
    /\ Truthy(outcome["r1"].sources[1].summary)

\* C4 as claimed: when every candidate fails fetching or extraction, run
\* makes the final generation call and returns an answer without raising,
\* the sources being the original list with every summary absent.
C4_Original ==
    \A r \in Requests :
        AllDropped(r) /\ Terminal(r) =>
            /\ outcome[r].kind = "ok"
            /\ calls[r].final = 1
            /\ outcome[r].sources = Original(r)

\* C4 amended: when every candidate's _fetch returned no document, run
\* makes no condensation call and no document failure is raised; unless a
\* supplied image fails to decode (InvalidImagePayload, no final call) the
\* final generation call is made exactly once, and run either returns the
\* original candidate list with every summary absent or, the call having
\* produced nothing, fails with the runtime error.
C4_AllDroppedStillAnswers ==
    \A r \in Requests :
        AllDropped(r) /\ Terminal(r) =>
            /\ calls[r].condense = 0
            /\ IF Undecodable(image[r])
               THEN outcome[r].kind = "InvalidImage" /\ calls[r].final = 0
               ELSE /\ calls[r].final = 1
                    /\ outcome[r].kind \in {"ok", "RuntimeError"}
                    /\ outcome[r].kind = "ok" =>
                          /\ outcome[r].sources = Original(r)
                          /\ outcome[r].sources # <<>>
                          /\ \A k \in DOMAIN outcome[r].sources :
                                outcome[r].sources[k].summary = None

\* C4 witness: two candidates, one failed fetch and one page without text,
\* and the run returned both candidates unsummarized.
C4_Witness ==
    /\ AllDropped("r1")
    /\ pc["r1"] = "done"
    /\ Len(outcome["r1"].sources) = 2
    /\ \E i \in DOMAIN tasks["r1"] : tasks["r1"][i].net = "error"
    /\ \E i \in DOMAIN tasks["r1"] : tasks["r1"][i].net = "ok"

\* C5: the EmptyResults failure is raised from the searching phase only,
\* on an empty search result, with no fetch task created and no generation
\* call made; and a run whose search returned nothing ends that way.
C5_EmptyResults ==
    \A r \in Requests :
        /\ outcome[r].kind = "EmptyResults" =>
              /\ outcome[r].from = "searching"
              /\ search_results[r] = <<>>
              /\ tasks[r] = <<>>
              /\ calls[r].condense = 0 /\ calls[r].final = 0
        /\ (pc[r] \notin {"idle", "searching"} /\ outcome[r].kind # "HTTPError"
              /\ search_results[r] = <<>>) =>
              outcome[r].kind = "EmptyResults" /\ pc[r] = "failed"

\* C5 witness: a run failed with EmptyResults.
C5_Witness == pc["r1"] = "failed" /\ outcome["r1"].kind = "EmptyResults"

\* C6: a candidate whose request failed has _fetch return None (no document,
\* no exception), after exactly one request; no url is requested twice by a
\* task; an exception leaving fetch_documents comes from a task whose
\* request succeeded; and every other task's result is the extraction of
\* its own body.
C6_FetchFailureDropped ==
    \A r \in Requests :
        /\ \A i \in DOMAIN tasks[r] :
              LET t == tasks[r][i]
              IN /\ t.gets <= 1
                 /\ t.net = "error" =>
                       t.st = "done" /\ t.res.tag = "none" /\ t.gets = 1
                 /\ (t.st = "done" /\ t.net = "ok") =>
                       t.res = Extract(t.html, search_results[r][i].url,
                                       search_results[r][i].title)
        /\ outcome[r].kind = "LibraryError" =>
              \E i \in DOMAIN tasks[r] :
                  tasks[r][i].net = "ok" /\ tasks[r][i].res.tag = "raised"

\* C6 witness: fetch_documents returned one document for two candidates,
\* the first of which failed its request.
C6_Witness ==
    /\ pc["r1"] = "condensing"
    /\ Len(tasks["r1"]) = 2
    /\ tasks["r1"][1].net = "error"
    /\ tasks["r1"][2].res.tag = "doc"
    /\ Len(scraped_docs["r1"]) = 1
    /\ scraped_docs["r1"][1] = tasks["r1"][2].res

\* C7 as claimed: no exception of a parsing library leaves _fetch, and so
\* none leaves fetch_documents or run.
C7_NoLibraryErrorEscapes ==
    \A r \in Requests :
        /\ outcome[r].kind # "LibraryError"
        /\ \A i \in DOMAIN tasks[r] : tasks[r][i].res.tag # "raised"

\* The trimmed text of each tier on a page; a tier that raises or returns
\* None has none.
Tier1Text(h) == IF h.traf \in {None, Raise} THEN <<>> ELSE Strip(h.traf)

Tier2Text(h) == IF h.rd_text = Raise THEN <<>> ELSE Strip(h.rd_text)

Tier3Text(h) == IF h.bs_text = Raise THEN <<>> ELSE Strip(h.bs_text)

\* C8: the primary tier is always called, readability exactly when the
\* primary tier gave no non-empty trimmed text, the raw-markup tier exactly
\* when neither did; a document's text is the trimmed output of the first
\* tier that has one; and the document is dropped exactly when all three
\* tiers end empty.
C8_TierOrder ==
    ex.phase = "extracted" =>
        LET h == ex.html
            t1 == Tier1Text(h)
            t2 == Tier2Text(h)
            t3 == Tier3Text(h)
        IN /\ 1 \in ex.out.tiers
           /\ 2 \in ex.out.tiers <=> t1 = <<>>
           /\ 3 \in ex.out.tiers <=> (t1 = <<>> /\ t2 = <<>>)
           /\ ex.out.tag = "doc" =>
                 /\ ex.out.text # <<>>
                 /\ ex.out.text = IF t1 # <<>> THEN t1 ELSE IF t2 # <<>> THEN t2 ELSE t3
           /\ ex.out.tag = "none" <=>
                 (t1 = <<>> /\ t2 = <<>> /\ t3 = <<>> /\ h.bs_text # Raise)

\* C8 witness: the first two tiers gave only whitespace and the document
\* carries the raw-markup tier's text.
C8_Witness ==
    /\ ex.phase = "extracted"
    /\ ex.html.traf = <<" ">>
    /\ ex.html.rd_text = <<" ">>
    /\ ex.out.tiers = {1, 2, 3}
    /\ ex.out.tag = "doc"
    /\ ex.out.text = <<"c">>

\* The titles a page offers: the metadata title, the readability title, the
\* title element.
PageMetaTitle(h) == IF h.meta = Raise THEN None ELSE h.meta

PageHeuristicTitle(h) == IF h.rd_text = Raise THEN None ELSE StripOrNone(h.rd_title)

PageTagTitle(h) == IF h.bs_text = Raise THEN None ELSE StripOrNone(h.bs_title)

\* C9 as claimed: whichever tier supplied the text, a document's title is
\* the first present of metadata title, readability title, title element,
\* fallback title.
C9_TitlePrecedence ==
    (ex.phase = "extracted" /\ ex.out.tag = "doc") =>
        ex.out.title =
            OrElse(PageMetaTitle(ex.html),
                   OrElse(PageHeuristicTitle(ex.html),
                          OrElse(PageTagTitle(ex.html), ex.fallback_title)))

\* C10 as claimed: a run that fails on the image payload has made no
\* generation call at all.
C10_Original ==
    \A r \in Requests :
        outcome[r].kind = "InvalidImage" =>
            calls[r].condense = 0 /\ calls[r].final = 0

\* C10 amended: a run given an undecodable image never starts its final
\* generation call and never returns; it fails with InvalidImagePayload
\* from the aggregation step, after the condensation calls of its
\* documents; no other run fails that way.
C10_InvalidImageBeforeFinalCall ==
    \A r \in Requests :
        /\ Undecodable(image[r]) =>
              /\ calls[r].final = 0
              /\ pc[r] \notin {"generating", "done"}
              /\ outcome[r].kind # "RuntimeError"
        /\ outcome[r].kind = "InvalidImage" =>
              /\ Undecodable(image[r])
              /\ outcome[r].from = "aggregating"
              /\ calls[r].final = 0
              /\ sidx[r] > Len(scraped_docs[r])
        /\ (Undecodable(image[r]) /\ pc[r] = "failed"
              /\ sidx[r] > Len(scraped_docs[r]) /\ sidx[r] > 0) =>
              outcome[r].kind = "InvalidImage"

\* C10 witness: the run failed on its image after a condensation call.
C10_Witness ==
    /\ outcome["r1"].kind = "InvalidImage"
    /\ calls["r1"].condense >= 1
    /\ calls["r1"].final = 0

\* C11: a run that fails on a malformed image payload is answered with
\* status 400 and a run whose search returned no result with status 404;
\* 400 is given to no other request than one with a malformed image and 404
\* to no other than one without search results, so the two never coincide.
C11_ImageAndEmptyStatuses ==
    \A r \in Requests :
        /\ (pc[r] = "failed" /\ outcome[r].from = "aggregating") =>
              Undecodable(image[r]) /\ status[r] = 400
        /\ (pc[r] = "failed" /\ outcome[r].from = "searching"
              /\ attempt[r] < SearchAttempts) =>
              search_results[r] = <<>> /\ status[r] = 404
        /\ status[r] = 400 => Undecodable(image[r]) /\ search_results[r] # <<>>
        /\ status[r] = 404 => search_results[r] = <<>>
        /\ (status[r] = NoStatus) = ~Terminal(r)

\* C11 witness: a request with candidates and a malformed image was
\* answered 400 after its condensation calls.
C11_Witness ==
    /\ status["r1"] = 400
    /\ Len(search_results["r1"]) = 2
    /\ calls["r1"].condense = 1

\* C12 as claimed: when every attempt of the search request failed, search
\* raises BraveSearchError and /query answers 502.
C12_UpstreamSignal ==
    \A r \in Requests :
        (pc[r] = "failed" /\ attempt[r] = SearchAttempts) =>
            outcome[r].kind = "BraveSearchError" /\ status[r] = 502

\* The requests with a LocalLLM.chat call in flight.
InChat == {r \in Requests : pc[r] \in {"summarizing", "generating"}}

\* C13 as claimed: at most one LocalLLM.chat call is in flight at any
\* moment, over all the requests running on the shared pipeline.
C13_ChatSerialized == Cardinality(InChat) <= 1

\* C14: the text _prepare_text hands to the chat call holds at most
\* summary_chunk_size whitespace-delimited words; when the document text
\* holds more, it is the first summary_chunk_size words of the text, in
\* order, with exactly one space between two words and none around them.
C14_PrepareTruncates ==
    pt.phase = "prepared" =>
        LET words == Split(pt.text)
            W == summary_chunk_size
        IN /\ Len(Split(pt.out)) <= W
           /\ Len(words) > W =>
                 /\ Split(pt.out) = SubSeq(words, 1, W)
                 /\ pt.out = Join(<<" ">>, SubSeq(words, 1, W))
                 /\ \A k \in DOMAIN pt.out :
                       pt.out[k] = " " =>
                           /\ 1 < k /\ k < Len(pt.out)
                           /\ pt.out[k + 1] # " "

\* C14 witness: " a  b a", three words with irregular spacing, was cut to
\* "a b".
C14_Witness ==
    /\ pt.phase = "prepared"
    /\ pt.text = <<" ", "a", " ", " ", "b", " ", "a">>
    /\ pt.out = <<"a", " ", "b">>

\* C15: once query_endpoint has called run it has called it exactly once,
\* with the request's query and image_base64 as they came and with top_k
\* the smaller of request.top_k and brave_result_count; before, it has not
\* called it.
C15_RunOnceWithCappedTopK ==
    /\ ep.phase = "received" => ep.runs = <<>>
    /\ ep.phase \in {"running", "answered"} =>
          /\ Len(ep.runs) = 1
          /\ ep.runs[1].query = ep.request.query
          /\ ep.runs[1].image_base64 = ep.request.image_base64
          /\ ep.runs[1].top_k <= ep.request.top_k
          /\ ep.runs[1].top_k <= brave_result_count
          /\ ep.runs[1].top_k \in {ep.request.top_k, brave_result_count}

\* C15 witness: a request with top_k 10 and an image was answered 200 after
\* one run with top_k 6.
C15_Witness ==
    /\ ep.phase = "answered"
    /\ ep.status = 200
    /\ ep.request.top_k = 10
    /\ ep.request.image_base64 # None
    /\ ep.runs = <<QueryRequest(ep.request.query, 6, ep.request.image_base64)>>

\* run has walked the candidates and built the context blocks.
Aggregated(r) ==
    \/ pc[r] \in {"generating", "done"}
    \/ pc[r] = "failed" /\ outcome[r].from \in {"aggregating", "generating"}

\* The candidate positions of the documents fetch_documents returned, in
\* the order of scraped_docs.
DocPositions(r) ==
    SelectSeq([i \in 1..Len(tasks[r]) |-> i], LAMBDA i : tasks[r][i].res.tag = "doc")

\* A failed chat call of a condensation leaves no digest, does not end the
\* run, and does not keep the later documents from being condensed.
FailureAbsorbed(r) ==
    /\ \A j \in DOMAIN digests[r] :
          digests[r][j].failed => ~Truthy(digests[r][j].summary)
    /\ Len(digests[r]) <= Len(scraped_docs[r])
    /\ (pc[r] = "failed" /\ digests[r] # <<>>) => Aggregated(r)
    /\ Aggregated(r) =>
          /\ Len(digests[r]) = Len(scraped_docs[r])
          /\ calls[r].condense = Len(scraped_docs[r])

\* C16 as claimed: a failed condensation is absorbed as above, and the
\* candidate of the document whose condensation failed has no context
\* block.
C16_Original ==
    \A r \in Requests :
        /\ FailureAbsorbed(r)
        /\ Aggregated(r) =>
              \A j \in DOMAIN digests[r] :
                  digests[r][j].failed =>
                      \A k \in DOMAIN contexts[r] :
                          contexts[r][k].idx # DocPositions(r)[j]

\* C16 amended: a failed condensation is absorbed as above, and a candidate
\* has a context block only if the condensation of some document with its
\* url succeeded; the candidate of a document whose condensation failed has
\* no block unless another document of the same url was condensed.
C16_FailedCondensationAbsorbed ==
    \A r \in Requests :
        /\ FailureAbsorbed(r)
        /\ Aggregated(r) =>
              /\ \A k \in DOMAIN contexts[r] :
                    \E j \in DOMAIN digests[r] :
                        /\ scraped_docs[r][j].url = contexts[r][k].url
                        /\ ~digests[r][j].failed
                        /\ Truthy(digests[r][j].summary)
              /\ \A j \in DOMAIN digests[r] :
                    (/\ digests[r][j].failed
                     /\ \A h \in DOMAIN digests[r] :
                           scraped_docs[r][h].url = scraped_docs[r][j].url
                               => digests[r][h].failed) =>
                        \A k \in DOMAIN contexts[r] :
                            contexts[r][k].idx # DocPositions(r)[j]

\* C16 witness: the chat call failed for the first of three documents, the
\* only one of its url; the two others were condensed after it and only
\* their candidates have blocks.
C16_Witness ==
    /\ pc["r1"] = "generating"
    /\ Len(digests["r1"]) = 3
    /\ digests["r1"][1].failed
    /\ ~digests["r1"][2].failed
    /\ ~digests["r1"][3].failed
    /\ scraped_docs["r1"][1].url # scraped_docs["r1"][2].url
    /\ Len(contexts["r1"]) = 2

\* The final chat call of run has been started.
ReachedGenerating(r) ==
    \/ pc[r] \in {"generating", "done"}
    \/ pc[r] = "failed" /\ outcome[r].from = "generating"

\* C17: a final chat call that ends without output makes run fail with the
\* RuntimeError and return nothing (no answer, no sources), and run raises
\* the RuntimeError in no other case, a chat call failing during
\* condensation included; a run that returns gives the trimmed output of
\* the call; and the final call has been started exactly once by a request
\* that reached the generating phase, and not at all by another.
C17_NoOutputIsFatal ==
    \A r \in Requests :
        /\ outcome[r].raw = Raise =>
              /\ pc[r] = "failed"
              /\ outcome[r].kind = "RuntimeError"
              /\ outcome[r].from = "generating"
              /\ outcome[r].answer = None
              /\ outcome[r].sources = <<>>
              /\ status[r] \notin {NoStatus, 200}
        /\ outcome[r].kind = "RuntimeError" => outcome[r].raw = Raise
        /\ pc[r] = "done" =>
              /\ outcome[r].raw \notin {None, Raise}
              /\ outcome[r].answer = Strip(outcome[r].raw)
        /\ calls[r].final = (IF ReachedGenerating(r) THEN 1 ELSE 0)

\* C17 witness: the chat call failed for one document of a run and was
\* absorbed, another document was condensed, and the final call, made once,
\* ended without output: the run failed with the RuntimeError.
C17_Witness ==
    /\ pc["r1"] = "failed"
    /\ outcome["r1"].kind = "RuntimeError"
    /\ outcome["r1"].raw = Raise
    /\ calls["r1"].final = 1
    /\ calls["r1"].condense = 2
    /\ digests["r1"][1].summary = None
    /\ Truthy(digests["r1"][2].summary)

\* The phases a request can enter next from each phase; aggregation holds no
\* await and is part of the step from condensing to generating or failed.
NextPhases(phase) ==
    CASE phase = "idle" -> {"searching"}
      [] phase = "searching" -> {"fetching", "failed"}
      [] phase = "fetching" -> {"condensing", "failed"}
      [] phase = "condensing" -> {"summarizing", "generating", "failed"}
      [] phase = "summarizing" -> {"condensing"}
      [] phase = "generating" -> {"done", "failed"}
      [] OTHER -> {}

\* What holds in each phase of a request.
PhaseInv ==
    \A r \in Requests :
        /\ tasks[r] # <<>> =>
              /\ pc[r] \notin {"idle", "searching"}
              /\ Len(tasks[r]) = Len(search_results[r])
        /\ (pc[r] = "fetching" \/ outcome[r].from = "fetching") =>
              calls[r].condense = 0 /\ digests[r] = <<>>
        /\ (calls[r].condense > 0 \/ pc[r] \in {"condensing", "summarizing"}
              \/ Aggregated(r)) =>
              \A i \in DOMAIN tasks[r] : tasks[r][i].st = "done"
        /\ calls[r].final > 0 =>
              /\ pc[r] # "summarizing"
              /\ Len(digests[r]) = Len(scraped_docs[r])
              /\ calls[r].condense = Len(digests[r])
        /\ pc[r] = "done" => calls[r].final = 1

\* C18: a request moves through its phases in the order searching,
\* fetching, condensing (one chat call at a time), generating, done, or
\* fails from one of them; no fetch task exists before the search has
\* returned, no condensation call is made before every fetch task of the
\* request has returned, and the final call is made only when every
\* condensation has ended.
C18_PhaseOrder ==
    /\ []PhaseInv
    /\ [][\A r \in Requests :
             pc'[r] # pc[r] => pc'[r] \in NextPhases(pc[r])]_vars

\* C18 witness: a request is done after three fetch tasks, of which one
\* failed, and two condensations.
C18_Witness ==
    /\ pc["r1"] = "done"
    /\ Len(tasks["r1"]) = 3
    /\ tasks["r1"][2].net = "error"
    /\ Len(digests["r1"]) = 2
    /\ calls["r1"].condense = 2
    /\ calls["r1"].final = 1

\* The request has ended, no fetch task waits or runs, every task has made
\* its one request, and every permit is back.
Quiescent ==
    /\ Terminal("r1")
    /\ \A t \in AllTasks :
          tasks[t[1]][t[2]].st = "done" /\ tasks[t[1]][t[2]].gets = 1
    /\ permits = max_concurrent_fetches

\* C19: with progress, the request ends, done or failed, and every fetch
\* task created runs to its end with its one request made, for good; a
\* task leaves the wait for the semaphore only by taking a permit, so every
\* waiting task comes to hold one; and a task that has started its request
\* ends only by its own response or error, whatever its siblings do: none
\* is cancelled, also when gather has raised the exception of another task.
C19_Progress ==
    /\ <>[]Quiescent
    /\ [][\A r \in Requests : \A i \in DOMAIN tasks[r] :
             /\ (tasks[r][i].st = "waiting" /\ tasks'[r][i].st # "waiting")
                   => tasks'[r][i].holds
             /\ (tasks[r][i].st # "done" /\ tasks'[r][i].st = "done")
                   => tasks[r][i].st \in {"fetching", "extracting"}
                        /\ tasks'[r][i].gets = 1]_vars

\* C19 witness: the request has failed on the exception of one of its
\* tasks while a sibling task is still inside _fetch and another still
\* waits for a permit.
C19_Witness ==
    /\ pc["r1"] = "failed"
    /\ outcome["r1"].from = "fetching"
    /\ Len(tasks["r1"]) > max_concurrent_fetches
    /\ InFetch # {}
    /\ Waiting # {}

\* The tasks running the extraction chain on a fetched body.
Extracting == {t \in AllTasks : tasks[t[1]][t[2]].st = "extracting"}

\* The tasks holding a permit of the semaphore.
Holders == {t \in AllTasks : tasks[t[1]][t[2]].holds}

\* C20: a task holds a permit exactly from the entry of its fetch to the
\* end of its extraction: the step from the fetch to the extraction keeps
\* the permit and frees none, every task extracting holds the permit it
\* fetched under, and so the tasks fetching and the tasks extracting
\* together are at most max_concurrent_fetches.
C20_PermitHeldThroughExtraction ==
    /\ [](/\ \A t \in AllTasks :
               tasks[t[1]][t[2]].holds
                   = (tasks[t[1]][t[2]].st \in {"fetching", "extracting"})
          /\ Cardinality(Holders) <= max_concurrent_fetches
          /\ Cardinality(Extracting) + Cardinality(InFetch \ Extracting)
                <= max_concurrent_fetches)
    /\ [][\A r \in Requests : \A i \in DOMAIN tasks[r] :
             (tasks[r][i].st = "fetching" /\ tasks'[r][i].st = "extracting") =>
                 /\ tasks[r][i].holds /\ tasks'[r][i].holds
                 /\ permits' = permits]_vars

\* C20 witness: every permit is held by a task that is extracting, one of
\* each request, and a candidate waits although no request is on the
\* network.
C20_Witness ==
    /\ Cardinality(Extracting) = max_concurrent_fetches
    /\ Holders = Extracting
    /\ \E t \in Extracting : t[1] = "r1"
    /\ \E t \in Extracting : t[1] = "r2"
    /\ Waiting # {}
    /\ permits = 0

\* A tier's raw output holds no text: it is None, an exception, or nothing
\* but whitespace.
Blank(s) == s \in {None, Raise} \/ \A k \in DOMAIN s : s[k] = " "

\* C21: a document _fetch returns has a text that is present, not empty and
\* without whitespace at either end, whichever tier it comes from; a page on
\* which every tier gave nothing or only whitespace yields no document.
C21_TextNonEmpty ==
    ex.phase = "extracted" =>
        /\ ex.out.tag = "doc" =>
              /\ ex.out.text \notin {None, Raise}
              /\ Len(ex.out.text) > 0
              /\ ex.out.text[1] # " "
              /\ ex.out.text[Len(ex.out.text)] # " "
        /\ (Blank(ex.html.traf) /\ Blank(ex.html.rd_text) /\ Blank(ex.html.bs_text))
              => ex.out.tag # "doc"

\* C21 witness: the primary tier gave only whitespace and the document
\* carries the readability text, trimmed.
C21_Witness ==
    /\ ex.phase = "extracted"
    /\ ex.html.traf = <<" ">>
    /\ ex.html.rd_text = <<"b", " ">>
    /\ ex.out.tag = "doc"
    /\ ex.out.text = <<"b">>
    /\ ex.out.tiers = {1, 2}

\* The condensations of a request in progress: the summarize calls that
\* started their chat call and have not returned.
CondensationsInProgress(r) == calls[r].condense - Len(digests[r])

Ended(tag) ==
    {t \in AllTasks : tasks[t[1]][t[2]].st = "done" /\ tasks[t[1]][t[2]].res.tag = tag}

\* C23: the free permits and the tasks between the entry of the async with
\* block and its exit always add up to max_concurrent_fetches; a task that
\* has left the block, with a document, with None or by an exception, holds
\* nothing; and when no task is inside the block every permit is free.
C23_PermitsConserved ==
    /\ permits \in 0..max_concurrent_fetches
    /\ permits + Cardinality(InFetch) = max_concurrent_fetches
    /\ permits + Cardinality(Holders) = max_concurrent_fetches
    /\ \A t \in Ended("doc") \cup Ended("none") \cup Ended("raised") :
          ~tasks[t[1]][t[2]].holds
    /\ InFetch = {} => permits = max_concurrent_fetches

\* C23 witness: tasks have left the block in each of the three ways, a
\* request has failed on the exception, and every permit is free again.
C23_Witness ==
    /\ Ended("doc") # {}
    /\ Ended("none") # {}
    /\ Ended("raised") # {}
    /\ InFetch = {}
    /\ Waiting = {}
    /\ permits = max_concurrent_fetches

\* fetch_documents has returned to run.
Fetched(r) == pc[r] \in {"condensing", "summarizing"} \/ Aggregated(r)

\* The candidates whose _fetch returned a document.
Surviving(r) == {i \in DOMAIN tasks[r] : tasks[r][i].res.tag = "doc"}

\* C24: the list fetch_documents returned holds one document per candidate
\* whose _fetch returned one and nothing else, each document that of its
\* candidate, and the documents stand in the order of their candidates in
\* the input list, whatever the order in which the tasks ended.
C24_InputOrderKept ==
    \A r \in Requests :
        IF Fetched(r)
        THEN /\ Len(scraped_docs[r]) = Cardinality(Surviving(r))
             /\ \E f \in [DOMAIN scraped_docs[r] -> Surviving(r)] :
                   /\ \A j, k \in DOMAIN f : j < k => f[j] < f[k]
                   /\ \A j \in DOMAIN f :
                         /\ scraped_docs[r][j] = tasks[r][f[j]].res
                         /\ scraped_docs[r][j].url = search_results[r][f[j]].url
        ELSE scraped_docs[r] = <<>>

\* C24 witness: the third task ended first, then the first, which was
\* dropped, then the second; the list holds the documents of the second
\* and third candidates, of different urls, in that order.
C24_Witness ==
    /\ pc["r1"] = "condensing"
    /\ finished.order["r1"] = <<3, 1, 2>>
    /\ tasks["r1"][1].res.tag = "none"
    /\ Len(scraped_docs["r1"]) = 2
    /\ scraped_docs["r1"][1].url = search_results["r1"][2].url
    /\ scraped_docs["r1"][2].url = search_results["r1"][3].url
    /\ scraped_docs["r1"][1].url # scraped_docs["r1"][2].url

\* The documents of url u whose condensation gave a non-empty summary, by
\* their position in the list fetch_documents returned.
Digested(r, u) ==
    {j \in DOMAIN digests[r] :
        scraped_docs[r][j].url = u /\ Truthy(digests[r][j].summary)}

\* The summary of the last of them, None when there is none.
LastDigest(r, u) ==
    IF Digested(r, u) = {} THEN None
    ELSE digests[r][CHOOSE j \in Digested(r, u) :
                        \A k \in Digested(r, u) : k <= j].summary

\* C25: each candidate has its own fetch task making at most one request
\* and each extracted document its own condensation call; once the
\* candidates are walked, a candidate has a context block exactly when some
\* extracted document of its url gave a non-empty summary, and its block
\* and its summary then carry the summary of the last such document in
\* candidate order, the same for every candidate of that url; otherwise it
\* has no summary.
C25_DigestsKeyedByUrl ==
    \A r \in Requests :
        /\ tasks[r] # <<>> => Len(tasks[r]) = Len(search_results[r])
        /\ \A i \in DOMAIN tasks[r] : tasks[r][i].gets <= 1
        /\ Aggregated(r) =>
              /\ calls[r].condense = Cardinality(Surviving(r))
              /\ \A i \in DOMAIN search_results[r] :
                    LET d == LastDigest(r, search_results[r][i].url)
                        blocks == {k \in DOMAIN contexts[r] : contexts[r][k].idx = i}
                    IN /\ Cardinality(blocks) = (IF d = None THEN 0 ELSE 1)
                       /\ \A k \in blocks : contexts[r][k].summary = d
                       /\ search_results[r][i].summary = d

\* C25 witness: three candidates of one url were condensed with "s", with
\* "t" and without result, in that order, and each of the three has a block
\* and the summary "t".
C25_Witness ==
    /\ pc["r1"] = "generating"
    /\ Len(search_results["r1"]) = 3
    /\ Len(digests["r1"]) = 3
    /\ digests["r1"][1].summary = <<"s">>
    /\ digests["r1"][2].summary = <<"t">>
    /\ digests["r1"][3].failed
    /\ Len(contexts["r1"]) = 3
    /\ \A i \in 1..3 : search_results["r1"][i].summary = <<"t">>
====
